---- MODULE Spec2Model ----
(***************************************************************************)
(* Model of the embedded-hal I2C wrapper for the Hubris I2C client:        *)
(* the error classifier (HubrisI2cError), the Core Adapter (HubrisI2c, in  *)
(* 7-bit and 10-bit mode), the Fast-Path Dispatcher (RegisterOptimizedI2c) *)
(* and the Retry Decorator (RetryingI2c), over a device client whose       *)
(* answers are drawn from a script of outcomes; the address constructors   *)
(* (SevenBitAddr, TenBitAddr) and the Verification Harness (MockI2c).      *)
(***************************************************************************)
EXTENDS Integers, Sequences, FiniteSets, TLC

VARIABLES
    max_retries,    \* RetryingI2c.max_retries (u8), fixed at construction
    pc,             \* "idle" | "loop" | "sleep" | "phases" | "done" | "panicked"
    call,           \* the operation in progress and its arguments
    script,         \* the device client's answers to the latest invocation
    oplog,          \* device-client operations issued by the latest invocation
    mem,            \* the caller's buffers (read buffer, operation list)
    result,         \* the value the call returned
    attempt,        \* retry_operation: the loop variable `attempt`
    last_error,     \* retry_operation: the local `last_error` (Option)
    attempt_result, \* retry_operation: what operation(&mut self.inner) returned
    attempts,       \* number of invocations of the wrapped operation in this call
    sleeps,         \* durations (ms) passed to sleep_for in this call, in order
    expected_operations, \* MockI2c.expected_operations
    operation_index,     \* MockI2c.operation_index
    bus,            \* operations seen on the I2C bus during this call, by user
    previous        \* what the previous call on this RetryingI2c did (Option)

vars == <<max_retries, pc, call, script, oplog, mem, result, attempt,
          last_error, attempt_result, attempts, sleeps,
          expected_operations, operation_index, bus, previous>>

----------------------------------------------------------------------------
(* Bounds of the model *)

\* largest max_retries a RetryingI2c is constructed with
MaxRetries == 3
\* longest write payload
MaxLen == 2
\* longest operation list of a transaction
MaxOps == 2
\* largest number of expectations a MockI2c is loaded with
MaxExpect == 2
\* largest number of operations of other bus users during one call
MaxOther == 2

\* lengths of the read buffers callers pass
BufLens == {2}
\* per-call 7-bit address arguments
Addrs7 == {72, 73}
\* per-call 10-bit address arguments
Addrs10 == {291, 1023}

----------------------------------------------------------------------------
(* Values *)

ResponseCode ==
    {"Success", "AddressNackSentEarly", "AddressNackSentLate", "DataNackSent",
     "BusError", "ArbitrationLost", "BusLocked", "BusTimeout", "NoDevice",
     "BadResponse"}

\* Option<T>
None == <<>>
Some(v) == <<v>>

\* HubrisI2cError { response_code, operation }
HubrisI2cError(response_code, operation) ==
    [response_code |-> response_code, operation |-> operation]

NoError == [response_code |-> "-", operation |-> "-"]

\* Result<(), HubrisI2cError>
OkResult == [ok |-> TRUE, err |-> NoError]
Err(error) == [ok |-> FALSE, err |-> error]
NoResult == [ok |-> FALSE, err |-> [response_code |-> "?", operation |-> "?"]]

\* Result<T, E>::Ok
Ok(value) == [ok |-> TRUE, value |-> value]

\* embedded_hal::i2c::Operation
OpRead(buffer) == [kind |-> "Read", data |-> buffer]
OpWrite(bytes) == [kind |-> "Write", data |-> bytes]

\* a zeroed buffer of n bytes, and a write payload of n bytes
Zeroes(n) == [i \in 1..n |-> 0]
Payload(n) == [i \in 1..n |-> 15 + i]
\* the bytes a successful device read delivers into a buffer of n bytes
DeviceData(n) == [i \in 1..n |-> 23]

\* zerocopy::FromBytes for an unsigned integer: the bytes in little-endian order
RECURSIVE FromBytes(_)
FromBytes(bytes) ==
    IF bytes = <<>> THEN 0 ELSE bytes[1] + 256 * FromBytes(Tail(bytes))

----------------------------------------------------------------------------
(* Bit operations on naturals *)

RECURSIVE BitAnd(_, _)
BitAnd(x, y) ==
    IF x = 0 \/ y = 0 THEN 0
    ELSE (IF x % 2 = 1 /\ y % 2 = 1 THEN 1 ELSE 0) + 2 * BitAnd(x \div 2, y \div 2)

RECURSIVE BitOr(_, _)
BitOr(x, y) ==
    IF x = 0 THEN y
    ELSE IF y = 0 THEN x
    ELSE (IF x % 2 = 1 \/ y % 2 = 1 THEN 1 ELSE 0) + 2 * BitOr(x \div 2, y \div 2)

ShiftRight(x, n) == x \div (2 ^ n)

----------------------------------------------------------------------------
(* Error classifier *)

\* embedded_hal::i2c::ErrorKind
ErrorKind ==
    {"Bus", "ArbitrationLoss", "NoAcknowledge(Address)", "NoAcknowledge(Data)",
     "NoAcknowledge(Unknown)", "Overrun", "Other"}

\* variant: a locked bus is reported as a bus error
kind_bus_locked_as_bus(error) ==
    CASE error.response_code \in {"AddressNackSentEarly", "AddressNackSentLate"} ->
             "NoAcknowledge(Address)"
      [] error.response_code = "DataNackSent" -> "NoAcknowledge(Data)"
      [] error.response_code \in {"BusError", "BusLocked"} -> "Bus"
      [] error.response_code = "ArbitrationLost" -> "ArbitrationLoss"
      [] OTHER -> "Other"

kind(error) ==
    CASE error.response_code = "Success" -> "Other"
      [] error.response_code \in {"AddressNackSentEarly", "AddressNackSentLate"} ->
             "NoAcknowledge(Address)"
      [] error.response_code = "DataNackSent" -> "NoAcknowledge(Data)"
      [] error.response_code = "BusError" -> "Bus"
      [] error.response_code = "ArbitrationLost" -> "ArbitrationLoss"
      [] OTHER -> "Other"

is_device_not_found(error) ==
    error.response_code \in {"AddressNackSentEarly", "AddressNackSentLate", "NoDevice"}

\* variant: a missing device counts as a temporary condition
is_temporary_with_no_device(error) ==
    error.response_code \in {"BusLocked", "BusTimeout", "ArbitrationLost", "NoDevice"}

is_temporary(error) ==
    error.response_code \in {"BusLocked", "BusTimeout", "ArbitrationLost"}

\* self.operation = operation; self
with_operation(error, operation) == [error EXCEPT !.operation = operation]

\* Option<Duration>, in milliseconds
retry_delay(error) ==
    CASE error.response_code = "BusLocked" -> Some(10)
      [] error.response_code = "BusTimeout" -> Some(100)
      [] error.response_code = "ArbitrationLost" -> Some(1)
      [] OTHER -> None

----------------------------------------------------------------------------
(* The device client.  A device is its script of answers and the log of    *)
(* the operations issued on it; operation number i is answered by entry i  *)
(* of the script ("Ok" or a fault code), and by "Ok" past its end.         *)

\* the codes a device-client operation fails with (Success is not a fault)
FaultCodes == ResponseCode \ {"Success"}

NewDevice(s) == [script |-> s, log |-> <<>>]

Respond(dev) ==
    IF Len(dev.log) < Len(dev.script) THEN dev.script[Len(dev.log) + 1] ELSE "Ok"

Logged(dev, op, data, len) ==
    [dev EXCEPT !.log = Append(@, [op |-> op, data |-> data, len |-> len])]

I2cDevice_write(dev, bytes) ==
    [dev |-> Logged(dev, "write", bytes, 0), code |-> Respond(dev)]

I2cDevice_read_into(dev, buffer) ==
    [dev |-> Logged(dev, "read_into", <<>>, Len(buffer)),
     code |-> Respond(dev),
     buf |-> IF Respond(dev) = "Ok" THEN DeviceData(Len(buffer)) ELSE buffer]

I2cDevice_read_reg_into(dev, reg, buffer) ==
    [dev |-> Logged(dev, "read_reg_into", <<reg>>, Len(buffer)),
     code |-> Respond(dev),
     buf |-> IF Respond(dev) = "Ok" THEN DeviceData(Len(buffer)) ELSE buffer]

\* read_reg::<R, V>(reg): a value of size_of::<V>() = size bytes
I2cDevice_read_reg(dev, reg, size) ==
    [dev |-> Logged(dev, "read_reg", <<reg>>, size),
     code |-> Respond(dev),
     value |-> FromBytes(DeviceData(size))]

\* read_block(reg, buffer): the block fills the buffer; its length is returned
I2cDevice_read_block(dev, reg, buffer) ==
    [dev |-> Logged(dev, "read_block", <<reg>>, Len(buffer)),
     code |-> Respond(dev),
     count |-> Len(buffer),
     buf |-> IF Respond(dev) = "Ok" THEN DeviceData(Len(buffer)) ELSE buffer]

----------------------------------------------------------------------------
(* Core Adapter: the inherent methods of HubrisI2c *)

HubrisI2c_read_register(dev, reg, size) ==
    LET r == I2cDevice_read_reg(dev, reg, size)
    IN  [dev |-> r.dev,
         res |-> IF r.code = "Ok" THEN Ok(r.value)
                 ELSE Err(HubrisI2cError(r.code, "optimized_register_read"))]

HubrisI2c_read_block(dev, reg, buffer) ==
    LET r == I2cDevice_read_block(dev, reg, buffer)
    IN  [dev |-> r.dev,
         res |-> IF r.code = "Ok" THEN Ok(r.count)
                 ELSE Err(HubrisI2cError(r.code, "smbus_block_read")),
         buf |-> r.buf]

----------------------------------------------------------------------------
(* Core Adapter, 7-bit addressing: impl I2c<SevenBitAddr> for HubrisI2c *)

HubrisI2c_read(dev, address, buffer) ==
    LET r == I2cDevice_read_into(dev, buffer)
    IN  [dev |-> r.dev,
         res |-> IF r.code = "Ok" THEN OkResult
                 ELSE Err(HubrisI2cError(r.code, "read")),
         buf |-> r.buf]

\* variant: the per-call address is sent ahead of the payload
HubrisI2c_write_sending_address(dev, address, bytes) ==
    LET r == I2cDevice_write(dev, <<address>> \o bytes)
    IN  [dev |-> r.dev,
         res |-> IF r.code = "Ok" THEN OkResult
                 ELSE Err(HubrisI2cError(r.code, "write"))]

HubrisI2c_write(dev, address, bytes) ==
    LET r == I2cDevice_write(dev, bytes)
    IN  [dev |-> r.dev,
         res |-> IF r.code = "Ok" THEN OkResult
                 ELSE Err(HubrisI2cError(r.code, "write"))]

\* variant: the register read is not returned and the generic path runs too
HubrisI2c_write_read_fallthrough(dev, address, bytes, buffer) ==
    LET g == IF Len(bytes) = 1
             THEN I2cDevice_read_reg_into(dev, bytes[1], buffer)
             ELSE [dev |-> dev, code |-> "Ok", buf |-> buffer]
        w == I2cDevice_write(g.dev, bytes)
    IN  IF w.code # "Ok"
        THEN [dev |-> w.dev,
              res |-> Err(HubrisI2cError(w.code, "write_read_write_phase")),
              buf |-> g.buf]
        ELSE LET r == I2cDevice_read_into(w.dev, g.buf)
             IN  [dev |-> r.dev,
                  res |-> IF r.code = "Ok" THEN OkResult
                          ELSE Err(HubrisI2cError(r.code, "write_read_read_phase")),
                  buf |-> r.buf]

\* variant: no register read; every payload is written, then the read follows
HubrisI2c_write_read_without_register_read(dev, address, bytes, buffer) ==
    LET w == I2cDevice_write(dev, bytes)
    IN  IF w.code # "Ok"
        THEN [dev |-> w.dev,
              res |-> Err(HubrisI2cError(w.code, "write_read_write_phase")),
              buf |-> buffer]
        ELSE LET r == I2cDevice_read_into(w.dev, buffer)
             IN  [dev |-> r.dev,
                  res |-> IF r.code = "Ok" THEN OkResult
                          ELSE Err(HubrisI2cError(r.code, "write_read_read_phase")),
                  buf |-> r.buf]

\* variant: the read is issued even when the write failed
HubrisI2c_write_read_reading_after_failed_write(dev, address, bytes, buffer) ==
    IF Len(bytes) = 1
    THEN LET r == I2cDevice_read_reg_into(dev, bytes[1], buffer)
         IN  [dev |-> r.dev,
              res |-> IF r.code = "Ok" THEN OkResult
                      ELSE Err(HubrisI2cError(r.code, "write_read_reg")),
              buf |-> r.buf]
    ELSE LET w == I2cDevice_write(dev, bytes)
             r == I2cDevice_read_into(w.dev, buffer)
         IN  [dev |-> r.dev,
              res |-> IF w.code # "Ok"
                      THEN Err(HubrisI2cError(w.code, "write_read_write_phase"))
                      ELSE IF r.code = "Ok" THEN OkResult
                      ELSE Err(HubrisI2cError(r.code, "write_read_read_phase")),
              buf |-> r.buf]

HubrisI2c_write_read(dev, address, bytes, buffer) ==
    IF Len(bytes) = 1
    THEN LET r == I2cDevice_read_reg_into(dev, bytes[1], buffer)
         IN  [dev |-> r.dev,
              res |-> IF r.code = "Ok" THEN OkResult
                      ELSE Err(HubrisI2cError(r.code, "write_read_reg")),
              buf |-> r.buf]
    ELSE LET w == I2cDevice_write(dev, bytes)
         IN  IF w.code # "Ok"
             THEN [dev |-> w.dev,
                   res |-> Err(HubrisI2cError(w.code, "write_read_write_phase")),
                   buf |-> buffer]
             ELSE LET r == I2cDevice_read_into(w.dev, buffer)
                  IN  [dev |-> r.dev,
                       res |-> IF r.code = "Ok" THEN OkResult
                               ELSE Err(HubrisI2cError(r.code, "write_read_read_phase")),
                       buf |-> r.buf]

\* the loop of transaction over operations[i..]
RECURSIVE HubrisI2c_transaction_from(_, _, _, _)
HubrisI2c_transaction_from(dev, address, operations, i) ==
    IF i > Len(operations)
    THEN [dev |-> dev, res |-> OkResult, operations |-> operations]
    ELSE IF operations[i].kind = "Read"
    THEN LET r == HubrisI2c_read(dev, address, operations[i].data)
             after == [operations EXCEPT ![i].data = r.buf]
         IN  IF r.res.ok
             THEN HubrisI2c_transaction_from(r.dev, address, after, i + 1)
             ELSE [dev |-> r.dev,
                   res |-> Err([r.res.err EXCEPT !.operation = "transaction_read"]),
                   operations |-> after]
    ELSE LET w == HubrisI2c_write(dev, address, operations[i].data)
         IN  IF w.res.ok
             THEN HubrisI2c_transaction_from(w.dev, address, operations, i + 1)
             ELSE [dev |-> w.dev,
                   res |-> Err([w.res.err EXCEPT !.operation = "transaction_write"]),
                   operations |-> operations]

\* variant: the result of a write element is dropped and the loop goes on
RECURSIVE HubrisI2c_transaction_from_ignoring_writes(_, _, _, _)
HubrisI2c_transaction_from_ignoring_writes(dev, address, operations, i) ==
    IF i > Len(operations)
    THEN [dev |-> dev, res |-> OkResult, operations |-> operations]
    ELSE IF operations[i].kind = "Read"
    THEN LET r == HubrisI2c_read(dev, address, operations[i].data)
             after == [operations EXCEPT ![i].data = r.buf]
         IN  IF r.res.ok
             THEN HubrisI2c_transaction_from_ignoring_writes(r.dev, address, after, i + 1)
             ELSE [dev |-> r.dev,
                   res |-> Err([r.res.err EXCEPT !.operation = "transaction_read"]),
                   operations |-> after]
    ELSE LET w == HubrisI2c_write(dev, address, operations[i].data)
         IN  HubrisI2c_transaction_from_ignoring_writes(w.dev, address, operations, i + 1)

HubrisI2c_transaction_ignoring_writes(dev, address, operations) ==
    HubrisI2c_transaction_from_ignoring_writes(dev, address, operations, 1)

HubrisI2c_transaction(dev, address, operations) ==
    HubrisI2c_transaction_from(dev, address, operations, 1)

----------------------------------------------------------------------------
(* Core Adapter, 10-bit addressing: impl I2c<TenBitAddr> for HubrisI2c *)

\* capacity of the heapless::Vec that holds header and payload
WriteDataCapacity == 258

\* variant: the high address bits are taken by a shift of 8
addr_high_shift_8(address) == BitOr(240, BitAnd(ShiftRight(address, 8), 6) % 256)

\* 0xF0 | ((address.0 >> 7) & 0x06) as u8
addr_high(address) == BitOr(240, BitAnd(ShiftRight(address, 7), 6) % 256)

\* (address.0 & 0xFF) as u8
addr_low(address) == BitAnd(address, 255) % 256

\* variant: the outcome of the header write is not looked at
HubrisI2c_read_10bit_ignoring_setup_failure(dev, address, buffer) ==
    LET write_data == <<addr_high(address), addr_low(address)>>
        w == I2cDevice_write(dev, write_data)
        r == I2cDevice_read_into(w.dev, buffer)
    IN  [dev |-> r.dev,
         res |-> IF r.code = "Ok" THEN OkResult
                 ELSE Err(HubrisI2cError(r.code, "10bit_read")),
         buf |-> r.buf]

HubrisI2c_read_10bit(dev, address, buffer) ==
    LET write_data == <<addr_high(address), addr_low(address)>>
        w == I2cDevice_write(dev, write_data)
    IN  IF w.code # "Ok"
        THEN [dev |-> w.dev,
              res |-> Err(HubrisI2cError(w.code, "10bit_address_setup")),
              buf |-> buffer]
        ELSE LET r == I2cDevice_read_into(w.dev, buffer)
             IN  [dev |-> r.dev,
                  res |-> IF r.code = "Ok" THEN OkResult
                          ELSE Err(HubrisI2cError(r.code, "10bit_read")),
                  buf |-> r.buf]

\* variant: a payload that does not fit is cut to the capacity and sent
HubrisI2c_write_10bit_truncating(dev, address, bytes) ==
    LET all == <<addr_high(address), addr_low(address)>> \o bytes
        write_data == IF Len(all) > WriteDataCapacity
                      THEN SubSeq(all, 1, WriteDataCapacity) ELSE all
        w == I2cDevice_write(dev, write_data)
    IN  [dev |-> w.dev,
         res |-> IF w.code = "Ok" THEN OkResult
                 ELSE Err(HubrisI2cError(w.code, "10bit_write"))]

HubrisI2c_write_10bit(dev, address, bytes) ==
    IF 2 + Len(bytes) > WriteDataCapacity
    THEN [dev |-> dev,
          res |-> Err(HubrisI2cError("BadResponse", "10bit_write_buffer_overflow"))]
    ELSE LET write_data == <<addr_high(address), addr_low(address)>> \o bytes
             w == I2cDevice_write(dev, write_data)
         IN  [dev |-> w.dev,
              res |-> IF w.code = "Ok" THEN OkResult
                      ELSE Err(HubrisI2cError(w.code, "10bit_write"))]

HubrisI2c_write_read_10bit(dev, address, bytes, buffer) ==
    LET w == HubrisI2c_write_10bit(dev, address, bytes)
    IN  IF ~w.res.ok
        THEN [dev |-> w.dev, res |-> w.res, buf |-> buffer]
        ELSE HubrisI2c_read_10bit(w.dev, address, buffer)

RECURSIVE HubrisI2c_transaction_10bit_from(_, _, _, _)
HubrisI2c_transaction_10bit_from(dev, address, operations, i) ==
    IF i > Len(operations)
    THEN [dev |-> dev, res |-> OkResult, operations |-> operations]
    ELSE IF operations[i].kind = "Read"
    THEN LET r == HubrisI2c_read_10bit(dev, address, operations[i].data)
             after == [operations EXCEPT ![i].data = r.buf]
         IN  IF r.res.ok
             THEN HubrisI2c_transaction_10bit_from(r.dev, address, after, i + 1)
             ELSE [dev |-> r.dev, res |-> r.res, operations |-> after]
    ELSE LET w == HubrisI2c_write_10bit(dev, address, operations[i].data)
         IN  IF w.res.ok
             THEN HubrisI2c_transaction_10bit_from(w.dev, address, operations, i + 1)
             ELSE [dev |-> w.dev, res |-> w.res, operations |-> operations]

HubrisI2c_transaction_10bit(dev, address, operations) ==
    HubrisI2c_transaction_10bit_from(dev, address, operations, 1)

----------------------------------------------------------------------------
(* Fast-Path Dispatcher: RegisterOptimizedI2c, its inherent methods and    *)
(* impl I2c<SevenBitAddr> for RegisterOptimizedI2c                         *)

RegisterOptimizedI2c_read_register(dev, reg, size) ==
    LET r == I2cDevice_read_reg(dev, reg, size)
    IN  [dev |-> r.dev,
         res |-> IF r.code = "Ok" THEN Ok(r.value)
                 ELSE Err(HubrisI2cError(r.code, "optimized_register_read"))]

RegisterOptimizedI2c_read_block(dev, reg, buffer) ==
    LET r == I2cDevice_read_block(dev, reg, buffer)
    IN  [dev |-> r.dev,
         res |-> IF r.code = "Ok" THEN Ok(r.count)
                 ELSE Err(HubrisI2cError(r.code, "optimized_block_read")),
         buf |-> r.buf]

RegisterOptimizedI2c_read(dev, address, buffer) ==
    HubrisI2c_read(dev, address, buffer)

RegisterOptimizedI2c_write(dev, address, bytes) ==
    HubrisI2c_write(dev, address, bytes)

RegisterOptimizedI2c_write_read(dev, address, bytes, buffer) ==
    IF Len(bytes) = 1
    THEN LET r == I2cDevice_read_reg_into(dev, bytes[1], buffer)
         IN  [dev |-> r.dev,
              res |-> IF r.code = "Ok" THEN OkResult
                      ELSE Err(HubrisI2cError(r.code, "optimized_write_read")),
              buf |-> r.buf]
    ELSE HubrisI2c_write_read(dev, address, bytes, buffer)

\* variant: the outcome of the register read is dropped
RegisterOptimizedI2c_transaction_dropping_error(dev, address, operations) ==
    IF /\ Len(operations) = 2
       /\ operations[1].kind = "Write"
       /\ operations[2].kind = "Read"
       /\ Len(operations[1].data) = 1
    THEN LET r == I2cDevice_read_reg_into(dev, operations[1].data[1], operations[2].data)
         IN  [dev |-> r.dev, res |-> OkResult,
              operations |-> [operations EXCEPT ![2].data = r.buf]]
    ELSE HubrisI2c_transaction(dev, address, operations)

\* variant: the length of the write is not looked at
RegisterOptimizedI2c_transaction_any_write_length(dev, address, operations) ==
    IF /\ Len(operations) = 2
       /\ operations[1].kind = "Write"
       /\ operations[2].kind = "Read"
    THEN LET r == I2cDevice_read_reg_into(dev, operations[1].data[1], operations[2].data)
         IN  [dev |-> r.dev,
              res |-> IF r.code = "Ok" THEN OkResult
                      ELSE Err(HubrisI2cError(r.code, "optimized_transaction")),
              operations |-> [operations EXCEPT ![2].data = r.buf]]
    ELSE HubrisI2c_transaction(dev, address, operations)

RegisterOptimizedI2c_transaction(dev, address, operations) ==
    IF /\ Len(operations) = 2
       /\ operations[1].kind = "Write"
       /\ operations[2].kind = "Read"
       /\ Len(operations[1].data) = 1
    THEN LET r == I2cDevice_read_reg_into(dev, operations[1].data[1], operations[2].data)
         IN  [dev |-> r.dev,
              res |-> IF r.code = "Ok" THEN OkResult
                      ELSE Err(HubrisI2cError(r.code, "optimized_transaction")),
              operations |-> [operations EXCEPT ![2].data = r.buf]]
    ELSE HubrisI2c_transaction(dev, address, operations)

----------------------------------------------------------------------------
(* Calls: a generic operation, the component it is called on, its arguments *)

\* the memory a call passes by reference
Memory(buffer, operations) == [buffer |-> buffer, operations |-> operations]

\* via: "direct" (the component itself) or "retry" (RetryingI2c around it)
\* inner: "HubrisI2c" or "RegisterOptimizedI2c"; mode: 7 or 10 (address width)
Targets ==
    {[via |-> "direct", inner |-> "HubrisI2c", mode |-> 7],
     [via |-> "direct", inner |-> "HubrisI2c", mode |-> 10],
     [via |-> "direct", inner |-> "RegisterOptimizedI2c", mode |-> 7],
     [via |-> "retry", inner |-> "HubrisI2c", mode |-> 7],
     [via |-> "retry", inner |-> "RegisterOptimizedI2c", mode |-> 7]}

\* the address arguments a call on target t is given
Addrs(t) ==
    IF t.mode = 10 THEN Addrs10
    ELSE IF t.via = "retry" THEN {72}
    ELSE Addrs7

Call(t, fn, address, bytes, buffer, operations) ==
    [via |-> t.via, inner |-> t.inner, mode |-> t.mode, fn |-> fn,
     address |-> address, bytes |-> bytes, buffer |-> buffer,
     operations |-> operations]

\* a call of an inherent method (read_register, read_block): no address
\* argument; reg is the register, size is size_of::<V>() of read_register
InherentCall(inner, fn, reg, size, buffer) ==
    [via |-> "direct", inner |-> inner, mode |-> 0, fn |-> fn, address |-> 0,
     bytes |-> <<>>, buffer |-> buffer, operations |-> <<>>,
     reg |-> reg, size |-> size]

\* the register arguments and the sizes of the values read
Regs == {7, 16}
ValueSizes == {1, 2}

NoCall == Call([via |-> "-", inner |-> "-", mode |-> 0], "-", 0, <<>>, <<>>, <<>>)

Payloads == {Payload(n) : n \in 0..MaxLen}
Buffers == {Zeroes(n) : n \in BufLens}
\* elements of operation lists: a read, a one-byte write, a longest write
Elements == {OpRead(b) : b \in Buffers} \cup {OpWrite(Payload(1)), OpWrite(Payload(MaxLen))}
OperationLists == UNION {[1..n -> Elements] : n \in 0..MaxOps}

\* the component's method named by the call, on device dev and memory m
Invoke(c, m, dev) ==
    IF c.fn = "read_register" THEN
        LET r == IF c.inner = "RegisterOptimizedI2c"
                 THEN RegisterOptimizedI2c_read_register(dev, c.reg, c.size)
                 ELSE HubrisI2c_read_register(dev, c.reg, c.size)
        IN  [dev |-> r.dev, res |-> r.res, mem |-> m]
    ELSE IF c.fn = "read_block" THEN
        LET r == IF c.inner = "RegisterOptimizedI2c"
                 THEN RegisterOptimizedI2c_read_block(dev, c.reg, m.buffer)
                 ELSE HubrisI2c_read_block(dev, c.reg, m.buffer)
        IN  [dev |-> r.dev, res |-> r.res, mem |-> [m EXCEPT !.buffer = r.buf]]
    ELSE IF c.fn = "read" THEN
        LET r == CASE c.mode = 10 -> HubrisI2c_read_10bit(dev, c.address, m.buffer)
                   [] c.inner = "RegisterOptimizedI2c" ->
                          RegisterOptimizedI2c_read(dev, c.address, m.buffer)
                   [] OTHER -> HubrisI2c_read(dev, c.address, m.buffer)
        IN  [dev |-> r.dev, res |-> r.res, mem |-> [m EXCEPT !.buffer = r.buf]]
    ELSE IF c.fn = "write" THEN
        LET r == CASE c.mode = 10 -> HubrisI2c_write_10bit(dev, c.address, c.bytes)
                   [] c.inner = "RegisterOptimizedI2c" ->
                          RegisterOptimizedI2c_write(dev, c.address, c.bytes)
                   [] OTHER -> HubrisI2c_write(dev, c.address, c.bytes)
        IN  [dev |-> r.dev, res |-> r.res, mem |-> m]
    ELSE IF c.fn = "write_read" THEN
        LET r == CASE c.mode = 10 ->
                          HubrisI2c_write_read_10bit(dev, c.address, c.bytes, m.buffer)
                   [] c.inner = "RegisterOptimizedI2c" ->
                          RegisterOptimizedI2c_write_read(dev, c.address, c.bytes, m.buffer)
                   [] OTHER -> HubrisI2c_write_read(dev, c.address, c.bytes, m.buffer)
        IN  [dev |-> r.dev, res |-> r.res, mem |-> [m EXCEPT !.buffer = r.buf]]
    ELSE
        LET r == CASE c.mode = 10 ->
                          HubrisI2c_transaction_10bit(dev, c.address, m.operations)
                   [] c.inner = "RegisterOptimizedI2c" ->
                          RegisterOptimizedI2c_transaction(dev, c.address, m.operations)
                   [] OTHER -> HubrisI2c_transaction(dev, c.address, m.operations)
        IN  [dev |-> r.dev, res |-> r.res, mem |-> [m EXCEPT !.operations = r.operations]]

\* number of answers the device script holds for a call: one per device
\* operation the longest path through any component could issue
ElementLen(mode, el) == IF mode = 10 /\ el.kind = "Read" THEN 2 ELSE 1

RECURSIVE SumLen(_, _, _)
SumLen(mode, operations, i) ==
    IF i > Len(operations) THEN 0
    ELSE ElementLen(mode, operations[i]) + SumLen(mode, operations, i + 1)

ScriptLen(c) ==
    CASE c.fn = "read" -> IF c.mode = 10 THEN 2 ELSE 1
      [] c.fn \in {"write", "read_register", "read_block"} -> 1
      [] c.fn = "write_read" -> IF c.mode = 10 THEN 3 ELSE 2
      [] OTHER -> SumLen(c.mode, c.operations, 1)

\* scripts of n answers with at most one fault
Scripts(n) ==
    {[i \in 1..n |-> "Ok"]} \cup
    {[i \in 1..n |-> IF i = k THEN code ELSE "Ok"] : k \in 1..n, code \in FaultCodes}

----------------------------------------------------------------------------
(* Retry Decorator: RetryingI2c::retry_operation *)

\* variant: bus errors are retried as well
is_retryable_with_bus(k) == k \in {"ArbitrationLoss", "Other", "Bus"}

\* the match arm ErrorKind::ArbitrationLoss | ErrorKind::Other
is_retryable(k) == k \in {"ArbitrationLoss", "Other"}

\* variant: the delay doubles with every attempt
backoff_ms_exponential(att) == 10 * (2 ^ att)

\* 10 * (attempt + 1) as u64, with attempt + 1 computed in u8
backoff_ms(att) == 10 * ((att + 1) % 256)

PanicResult == [ok |-> FALSE, err |-> [response_code |-> "panic", operation |-> "unwrap on None"]]

\* variant: an error already stored in last_error is not overwritten
retry_operation_body_keep_first(att, max, last, r) ==
    IF r.ok
    THEN [returned |-> Some(r), slept |-> <<>>, last_error |-> last]
    ELSE IF kind(r.err) \in {"ArbitrationLoss", "Other"}
    THEN [returned |-> None,
          slept |-> IF att < max THEN <<10 * (att + 1)>> ELSE <<>>,
          last_error |-> IF last = None THEN Some(r.err) ELSE last]
    ELSE [returned |-> Some(Err(r.err)), slept |-> <<>>, last_error |-> last]

\* variant: the error of the final attempt is not stored
retry_operation_body_forgetting_final_error(att, max, last, r) ==
    IF r.ok
    THEN [returned |-> Some(r), slept |-> <<>>, last_error |-> last]
    ELSE IF kind(r.err) \in {"ArbitrationLoss", "Other"}
    THEN IF att < max
         THEN [returned |-> None, slept |-> <<10 * (att + 1)>>,
               last_error |-> Some(r.err)]
         ELSE [returned |-> None, slept |-> <<>>, last_error |-> last]
    ELSE [returned |-> Some(Err(r.err)), slept |-> <<>>, last_error |-> last]

\* one iteration of `for attempt in 0..=self.max_retries` on the outcome r of
\* operation(&mut self.inner): what is returned (if anything), what is slept,
\* and the next value of last_error
retry_operation_body(att, max, last, r) ==
    IF r.ok
    THEN [returned |-> Some(r), slept |-> <<>>, last_error |-> last]
    ELSE IF is_retryable(kind(r.err))
    THEN IF att < max
         THEN [returned |-> None, slept |-> <<backoff_ms(att)>>,
               last_error |-> Some(r.err)]
         ELSE [returned |-> None, slept |-> <<>>, last_error |-> Some(r.err)]
    ELSE [returned |-> Some(Err(r.err)), slept |-> <<>>, last_error |-> last]

\* Err(last_error.unwrap())
retry_operation_exit(last) ==
    IF last = None THEN PanicResult ELSE Err(last[1])

----------------------------------------------------------------------------
(* State machine *)

Init ==
    /\ max_retries \in 0..MaxRetries
    /\ pc = "idle"
    /\ call = NoCall
    /\ script = <<>>
    /\ oplog = <<>>
    /\ mem = Memory(<<>>, <<>>)
    /\ result = NoResult
    /\ attempt = 0
    /\ last_error = None
    /\ attempt_result = NoResult
    /\ attempts = 0
    /\ sleeps = <<>>
    /\ expected_operations = <<>>
    /\ operation_index = 0
    /\ bus = <<>>
    /\ previous = None

\* entry of a generic operation: RetryingI2c hands it to retry_operation,
\* HubrisI2c and RegisterOptimizedI2c run it against the device
Begin(c) ==
    /\ call' = c
    /\ UNCHANGED <<max_retries, attempt, last_error, attempt_result, attempts, sleeps>>
    /\ UNCHANGED <<expected_operations, operation_index, bus, previous>>
    /\ IF c.via = "retry"
       THEN /\ pc' = "loop"
            /\ mem' = Memory(c.buffer, c.operations)
            /\ UNCHANGED <<script, oplog, result>>
       ELSE \E s \in Scripts(ScriptLen(c)) :
                LET r == Invoke(c, Memory(c.buffer, c.operations), NewDevice(s))
                IN  /\ script' = s
                    /\ oplog' = r.dev.log
                    /\ mem' = r.mem
                    /\ result' = r.res
                    /\ pc' = "done"

Read ==
    /\ pc = "idle"
    /\ \E t \in Targets : \E a \in Addrs(t) : \E b \in Buffers :
           Begin(Call(t, "read", a, <<>>, b, <<>>))

Write ==
    /\ pc = "idle"
    /\ \E t \in Targets : \E a \in Addrs(t) : \E p \in Payloads :
           Begin(Call(t, "write", a, p, <<>>, <<>>))

WriteRead ==
    /\ pc = "idle"
    /\ \E t \in Targets : \E a \in Addrs(t) : \E p \in Payloads : \E b \in Buffers :
           Begin(Call(t, "write_read", a, p, b, <<>>))

Transaction ==
    /\ pc = "idle"
    /\ \E t \in Targets : \E a \in Addrs(t) : \E ops \in OperationLists :
           Begin(Call(t, "transaction", a, <<>>, <<>>, ops))

ReadRegister ==
    /\ pc = "idle"
    /\ \E inner \in {"HubrisI2c", "RegisterOptimizedI2c"} :
       \E reg \in Regs : \E size \in ValueSizes :
           Begin(InherentCall(inner, "read_register", reg, size, <<>>))

ReadBlock ==
    /\ pc = "idle"
    /\ \E inner \in {"HubrisI2c", "RegisterOptimizedI2c"} :
       \E reg \in Regs : \E b \in Buffers :
           Begin(InherentCall(inner, "read_block", reg, 0, b))

\* the outcome r of operation(&mut self.inner) is in: the call returns, or
\* sleep_for is entered (the task waits), or, after the final attempt, the
\* error is stored and the loop is left
AttemptCompleted(r) ==
    LET b == retry_operation_body(attempt, max_retries, last_error, r)
    IN  /\ attempt_result' = r
        /\ IF b.returned # None
           THEN /\ result' = b.returned[1]
                /\ pc' = "done"
                /\ UNCHANGED <<attempt, sleeps, last_error>>
           ELSE IF b.slept # <<>>
           THEN /\ sleeps' = sleeps \o b.slept
                /\ pc' = "sleep"
                /\ UNCHANGED <<attempt, last_error, result>>
           ELSE /\ last_error' = b.last_error
                /\ attempt' = attempt + 1
                /\ pc' = "loop"
                /\ UNCHANGED <<sleeps, result>>

\* one iteration of the retry loop, up to its return, its sleep or its end
RetryAttempt ==
    /\ pc = "loop"
    /\ attempt <= max_retries
    /\ \E s \in Scripts(ScriptLen(call)) :
           LET r == Invoke(call, mem, NewDevice(s))
           IN  /\ script' = s
               /\ oplog' = r.dev.log
               /\ mem' = r.mem
               /\ attempts' = attempts + 1
               /\ AttemptCompleted(r.res)
    /\ UNCHANGED <<max_retries, call, expected_operations, operation_index, bus, previous>>

\* sleep_for returns: last_error = Some(error); continue
RetryWake ==
    /\ pc = "sleep"
    /\ last_error' =
           retry_operation_body(attempt, max_retries, last_error, attempt_result).last_error
    /\ attempt' = attempt + 1
    /\ pc' = "loop"
    /\ UNCHANGED <<max_retries, call, script, oplog, mem, result, attempt_result,
                   attempts, sleeps, expected_operations, operation_index, bus,
                   previous>>

\* the loop is exhausted: Err(last_error.unwrap())
RetryExit ==
    /\ pc = "loop"
    /\ attempt > max_retries
    /\ result' = retry_operation_exit(last_error)
    /\ pc' = "done"
    /\ UNCHANGED <<max_retries, call, script, oplog, mem, attempt, last_error,
                   attempt_result, attempts, sleeps>>
    /\ UNCHANGED <<expected_operations, operation_index, bus, previous>>

\* the call has returned; its locals are dropped
Return ==
    /\ pc = "done"
    /\ pc' = "idle"
    /\ call' = NoCall
    /\ script' = <<>>
    /\ oplog' = <<>>
    /\ mem' = Memory(<<>>, <<>>)
    /\ result' = NoResult
    /\ attempt' = 0
    /\ last_error' = None
    /\ attempt_result' = NoResult
    /\ attempts' = 0
    /\ sleeps' = <<>>
    /\ bus' = <<>>
    /\ UNCHANGED <<max_retries, expected_operations, operation_index, previous>>

Next ==
    \/ Read
    \/ Write
    \/ WriteRead
    \/ Transaction
    \/ ReadRegister
    \/ ReadBlock
    \/ RetryAttempt
    \/ RetryWake
    \/ RetryExit
    \/ Return

Spec == Init /\ [][Next]_vars

----------------------------------------------------------------------------
(* Properties of the Retry Decorator *)

ViaRetry == call.via = "retry"

\* the wrapped operation has run and failed in its latest attempt
AttemptFailed == ViaRetry /\ attempts >= 1 /\ ~attempt_result.ok

\* another attempt of the wrapped operation is still to come
WillRetry ==
    ViaRetry /\ ((pc = "loop" /\ attempt <= max_retries) \/ pc = "sleep")

RetryableKinds == {"ArbitrationLoss", "Other"}
TerminalKinds == {"NoAcknowledge(Address)", "NoAcknowledge(Data)", "Bus"}

\* C1: a call whose attempts all fail with kind ArbitrationLoss or Other ends
\* after exactly max_retries + 1 attempts with an error; an attempt that fails
\* with kind NoAcknowledge(Address), NoAcknowledge(Data) or Bus is the last
\* one, so such a failure of the first attempt ends the call after 1 attempt.
C1_RetryBound ==
    /\ attempts <= max_retries + 1
    /\ (AttemptFailed /\ kind(attempt_result.err) \in RetryableKinds) =>
           /\ attempts <= max_retries => WillRetry
           /\ pc = "done" => (attempts = max_retries + 1 /\ ~result.ok)
    /\ (AttemptFailed /\ kind(attempt_result.err) \in TerminalKinds) =>
           /\ pc = "done"
           /\ result = attempt_result
    /\ (AttemptFailed /\ pc = "loop") => kind(attempt_result.err) \in RetryableKinds

C1_Witness ==
    /\ ViaRetry /\ pc = "done" /\ max_retries = 2 /\ attempts = 3
    /\ ~result.ok /\ kind(result.err) = "ArbitrationLoss"

\* C2: the value a RetryingI2c call returns is the outcome of the last attempt
\* it performed; a success ends the call at once.
C2_ReturnsLastOutcome ==
    /\ (ViaRetry /\ pc = "done") => result = attempt_result
    /\ (ViaRetry /\ attempts >= 1 /\ attempt_result.ok) =>
           (pc = "done" /\ result.ok /\ Len(sleeps) = attempts - 1)

C2_Witness ==
    /\ ViaRetry /\ pc = "done" /\ attempts = 3 /\ ~result.ok
    /\ result.err = attempt_result.err /\ last_error = Some(attempt_result.err)

\* C3: the i-th sleep of a call lasts 10 ms * i, one sleep separates two
\* consecutive attempts, and no sleep follows the attempt that ends the call.
C3_LinearBackoff ==
    ViaRetry =>
        /\ \A i \in 1..Len(sleeps) : sleeps[i] = 10 * i
        /\ WillRetry => Len(sleeps) = attempts
        /\ ~WillRetry /\ attempts >= 1 => Len(sleeps) = attempts - 1
        /\ (pc = "done" /\ ~result.ok /\ kind(result.err) \in RetryableKinds) =>
               Len(sleeps) = max_retries

C3_Witness ==
    /\ ViaRetry /\ pc = "done" /\ ~result.ok /\ sleeps = <<10, 20, 30>>

\* C4: the first backoff after a failure whose status code has a suggested
\* retry_delay() is at least that delay.
C4_DelayFloor ==
    (AttemptFailed /\ attempts = 1 /\ Len(sleeps) = 1
        /\ retry_delay(attempt_result.err) # None) =>
        sleeps[1] >= retry_delay(attempt_result.err)[1]

\* C5: with max_retries >= 1, a failure for which is_device_not_found() is
\* true is followed by no further attempt and is the error returned.
C5_DeviceNotFoundTerminal ==
    (AttemptFailed /\ max_retries >= 1 /\ is_device_not_found(attempt_result.err)) =>
        /\ ~WillRetry
        /\ pc = "done" => result = attempt_result

\* C6: a failed operation is attempted again only when is_temporary() is true
\* of the failure; any other failure is returned without another attempt.
C6_RetriesOnlyTemporary ==
    /\ (AttemptFailed /\ ~is_temporary(attempt_result.err)) => ~WillRetry
    /\ (AttemptFailed /\ is_temporary(attempt_result.err) /\ attempts <= max_retries) =>
           WillRetry

----------------------------------------------------------------------------
(* Properties of the Core Adapter and the Fast-Path Dispatcher *)

\* the operations of the trait embedded_hal::i2c::I2c
GenericOperations == {"read", "write", "write_read", "transaction"}

\* the latest invocation of a generic operation of HubrisI2c /
\* RegisterOptimizedI2c
Invoked ==
    /\ call.fn \in GenericOperations
    /\ (call.via = "direct" /\ pc = "done") \/ (ViaRetry /\ attempts >= 1)
InvokedResult == IF ViaRetry THEN attempt_result ELSE result

\* C7: on equal inputs and the same device script, write_read and transaction
\* of RegisterOptimizedI2c and of HubrisI2c agree on success/failure and on
\* the bytes left in the read buffers.
C7_FastPathEquivalence ==
    (/\ pc = "done" /\ call.via = "direct"
     /\ call.inner = "RegisterOptimizedI2c"
     /\ call.fn \in {"write_read", "transaction"}) =>
        LET core == Invoke([call EXCEPT !.inner = "HubrisI2c"],
                           Memory(call.buffer, call.operations), NewDevice(script))
        IN  /\ core.res.ok = result.ok
            /\ core.mem = mem

\* the device-client operations an element of a transaction stands for
ElementOps(mode, el) ==
    IF mode = 10 /\ el.kind = "Read" THEN <<"write", "read_into">>
    ELSE IF el.kind = "Read" THEN <<"read_into">>
    ELSE <<"write">>

RECURSIVE PlannedOps(_, _, _)
PlannedOps(mode, operations, i) ==
    IF i > Len(operations) THEN <<>>
    ELSE ElementOps(mode, operations[i]) \o PlannedOps(mode, operations, i + 1)

\* C8: HubrisI2c::transaction issues the device-client operations of its
\* elements in list order, stops at the first one that fails and returns that
\* failure, and returns Ok only when all of them succeeded.
C8_TransactionStopsAtFirstFailure ==
    (Invoked /\ call.inner = "HubrisI2c" /\ call.fn = "transaction") =>
        LET plan == PlannedOps(call.mode, call.operations, 1)
            n == Len(oplog)
        IN  /\ n <= Len(plan)
            /\ \A i \in 1..n : oplog[i].op = plan[i]
            /\ \A i \in 1..n : script[i] # "Ok" => i = n
            /\ InvokedResult.ok <=> (n = Len(plan) /\ \A i \in 1..n : script[i] = "Ok")
            /\ ~InvokedResult.ok =>
                   (n >= 1 /\ InvokedResult.err.response_code = script[n])

C8_Witness ==
    /\ pc = "done" /\ call.via = "direct" /\ call.inner = "HubrisI2c"
    /\ call.fn = "transaction" /\ Len(call.operations) = 2
    /\ Len(oplog) = 1 /\ ~result.ok /\ result.err.operation = "transaction_write"

\* C9 as stated: every call of a generic operation of HubrisI2c issues at most
\* two device-client operations.
C9_AtMostTwoOps ==
    (Invoked /\ call.inner = "HubrisI2c") => Len(oplog) <= 2

\* C9 amended: read, write and the 7-bit write_read issue at most two
\* device-client operations; the 10-bit write_read issues at most three; a
\* transaction of n elements issues at most n in 7-bit and 2n in 10-bit mode.
C9_OpsBound ==
    (Invoked /\ call.inner = "HubrisI2c") =>
        Len(oplog) <=
            CASE call.fn \in {"read", "write"} -> 2
              [] call.fn = "write_read" -> IF call.mode = 10 THEN 3 ELSE 2
              [] OTHER -> Len(call.operations) * (IF call.mode = 10 THEN 2 ELSE 1)

C9_Witness ==
    /\ pc = "done" /\ call.via = "direct" /\ call.inner = "HubrisI2c"
    /\ call.mode = 10 /\ call.fn = "write_read" /\ Len(oplog) = 3 /\ result.ok

\* C10: a status code returned by a device-client operation is the
\* response_code of the error the call returns, and a call returns Ok only
\* when every device-client operation it issued succeeded.
C10_FaultsPropagate ==
    Invoked =>
        \A i \in 1..Len(oplog) :
            (i <= Len(script) /\ script[i] # "Ok") =>
                (~InvokedResult.ok /\ InvokedResult.err.response_code = script[i])

C10_Witness ==
    /\ pc = "done" /\ call.via = "direct" /\ call.inner = "RegisterOptimizedI2c"
    /\ call.fn = "transaction" /\ ~result.ok
    /\ result.err = HubrisI2cError("BusTimeout", "optimized_transaction")

\* C19: in 7-bit mode a call of HubrisI2c with any other address argument,
\* on the same inputs and the same device answers, issues the same
\* device-client operations with the same data, returns the same result and
\* leaves the same bytes in the caller's buffers.
C19_AddressIgnored ==
    (pc = "done" /\ call.via = "direct" /\ call.inner = "HubrisI2c" /\ call.mode = 7) =>
        \A a \in Addrs7 :
            LET other == Invoke([call EXCEPT !.address = a],
                                Memory(call.buffer, call.operations), NewDevice(script))
            IN  /\ other.dev.log = oplog
                /\ other.res = result
                /\ other.mem = mem

C19_Witness ==
    /\ pc = "done" /\ call.via = "direct" /\ call.inner = "HubrisI2c" /\ call.mode = 7
    /\ call.fn = "transaction" /\ call.address = 73 /\ Len(oplog) = 2 /\ result.ok
    /\ oplog[1].op = "write"
    /\ Invoke([call EXCEPT !.address = 72],
              Memory(call.buffer, call.operations), NewDevice(script)).dev.log = oplog

----------------------------------------------------------------------------
(* The error classifier on its own: each method of HubrisI2cError applied  *)
(* to an error of any status code and any operation label.                 *)

\* the labels the adapters attach to errors
OperationLabels ==
    {"read", "write", "write_read_reg", "write_read_write_phase",
     "write_read_read_phase", "transaction_read", "transaction_write",
     "10bit_address_setup", "10bit_read", "10bit_write",
     "10bit_write_buffer_overflow", "optimized_write_read",
     "optimized_transaction", "optimized_register_read", "smbus_block_read",
     "optimized_block_read"}

ClassifierCall(fn, error, operation) ==
    [fn |-> fn, error |-> error, operation |-> operation]

\* a method has returned value v
Returned(c, v) ==
    /\ call' = c
    /\ result' = v
    /\ pc' = "done"
    /\ UNCHANGED <<max_retries, script, oplog, mem, attempt, last_error,
                   attempt_result, attempts, sleeps, expected_operations,
                   operation_index, bus, previous>>

CallKind ==
    /\ pc = "idle"
    /\ \E code \in ResponseCode : \E op \in OperationLabels :
           LET e == HubrisI2cError(code, op)
           IN  Returned(ClassifierCall("kind", e, "-"), kind(e))

CallIsDeviceNotFound ==
    /\ pc = "idle"
    /\ \E code \in ResponseCode : \E op \in OperationLabels :
           LET e == HubrisI2cError(code, op)
           IN  Returned(ClassifierCall("is_device_not_found", e, "-"),
                        is_device_not_found(e))

CallIsTemporary ==
    /\ pc = "idle"
    /\ \E code \in ResponseCode : \E op \in OperationLabels :
           LET e == HubrisI2cError(code, op)
           IN  Returned(ClassifierCall("is_temporary", e, "-"), is_temporary(e))

CallRetryDelay ==
    /\ pc = "idle"
    /\ \E code \in ResponseCode : \E op \in OperationLabels :
           LET e == HubrisI2cError(code, op)
           IN  Returned(ClassifierCall("retry_delay", e, "-"), retry_delay(e))

CallWithOperation ==
    /\ pc = "idle"
    /\ \E code \in ResponseCode : \E op \in OperationLabels :
       \E label \in OperationLabels :
           LET e == HubrisI2cError(code, op)
           IN  Returned(ClassifierCall("with_operation", e, label),
                        with_operation(e, label))

InitClassifier == Init /\ max_retries = 0

NextClassifier ==
    \/ CallKind
    \/ CallIsDeviceNotFound
    \/ CallIsTemporary
    \/ CallRetryDelay
    \/ CallWithOperation
    \/ Return

SpecClassifier == InitClassifier /\ [][NextClassifier]_vars

\* a method of the classifier has been applied to call.error
Classified == pc = "done" /\ call.fn \in
    {"kind", "is_device_not_found", "is_temporary", "retry_delay", "with_operation"}

\* C11: every status code has exactly one kind, each classifier method yields
\* a value of its type, and no status code is both device-not-found and
\* temporary.
C11_ClassifierTotal ==
    Classified =>
        /\ Cardinality({k \in ErrorKind : k = kind(call.error)}) = 1
        /\ call.fn = "kind" => result = kind(call.error)
        /\ call.fn \in {"is_device_not_found", "is_temporary"} => result \in BOOLEAN
        /\ ~(is_device_not_found(call.error) /\ is_temporary(call.error))
        /\ (call.fn = "is_temporary" /\ is_device_not_found(call.error)) =>
               result = FALSE
        /\ (call.fn = "is_device_not_found" /\ is_temporary(call.error)) =>
               result = FALSE

C11_Witness ==
    /\ pc = "done" /\ call.fn = "is_temporary"
    /\ call.error.response_code = "NoDevice" /\ result = FALSE

\* C12: kind() is NoAcknowledge(Address) for the two address-nack codes,
\* NoAcknowledge(Data) for DataNackSent, Bus for BusError, ArbitrationLoss for
\* ArbitrationLost and Other for every other code; and kind(),
\* is_device_not_found(), is_temporary() and retry_delay() give the same value
\* under every operation label.
C12_KindTableAndLabelIndependence ==
    Classified =>
        LET e == call.error
            code == e.response_code
        IN  /\ kind(e) =
                   (IF code \in {"AddressNackSentEarly", "AddressNackSentLate"}
                    THEN "NoAcknowledge(Address)"
                    ELSE IF code = "DataNackSent" THEN "NoAcknowledge(Data)"
                    ELSE IF code = "BusError" THEN "Bus"
                    ELSE IF code = "ArbitrationLost" THEN "ArbitrationLoss"
                    ELSE "Other")
            /\ \A label \in OperationLabels :
                   /\ kind(with_operation(e, label)) = kind(e)
                   /\ is_device_not_found(with_operation(e, label)) =
                          is_device_not_found(e)
                   /\ is_temporary(with_operation(e, label)) = is_temporary(e)
                   /\ retry_delay(with_operation(e, label)) = retry_delay(e)
            /\ call.fn = "kind" => result = kind(e)
            /\ call.fn = "with_operation" =>
                   result = HubrisI2cError(code, call.operation)

C12_Witness ==
    /\ pc = "done" /\ call.fn = "kind"
    /\ call.error = HubrisI2cError("BusLocked", "10bit_read") /\ result = "Other"

----------------------------------------------------------------------------
(* Address Model: SevenBitAddr, TenBitAddr and their validating            *)
(* constructors, applied to every value of the argument's type.            *)

\* largest u8 and largest u16
U8Max == 255
U16Max == 65535

\* the tuple structs SevenBitAddr(pub u8) and TenBitAddr(pub u16)
SevenBitAddr(addr) == <<"SevenBitAddr", addr>>
TenBitAddr(addr) == <<"TenBitAddr", addr>>

\* self.0
SevenBitAddr_get(self) == self[2]
TenBitAddr_get(self) == self[2]

\* enum InvalidAddress
SevenBitRange(addr) == <<"SevenBitRange", addr>>
TenBitRange(addr) == <<"TenBitRange", addr>>
Reserved(addr) == <<"Reserved", addr>>

\* variant: 0x77 is taken for a reserved address
SevenBitAddr_try_new_reserving_0x77(addr) ==
    IF addr > 127 THEN Err(SevenBitRange(addr))
    ELSE IF addr < 8 \/ addr >= 119 THEN Err(Reserved(addr))
    ELSE Ok(SevenBitAddr(addr))

SevenBitAddr_try_new(addr) ==
    IF addr > 127 THEN Err(SevenBitRange(addr))
    ELSE IF addr < 8 \/ addr > 119 THEN Err(Reserved(addr))
    ELSE Ok(SevenBitAddr(addr))

\* variant: 0x3FF is rejected
TenBitAddr_try_new_rejecting_0x3FF(addr) ==
    IF addr >= 1023 THEN Err(TenBitRange(addr))
    ELSE Ok(TenBitAddr(addr))

TenBitAddr_try_new(addr) ==
    IF addr > 1023 THEN Err(TenBitRange(addr))
    ELSE Ok(TenBitAddr(addr))

AddressCall(fn, addr) == [fn |-> fn, addr |-> addr]

CallSevenBitAddrTryNew ==
    /\ pc = "idle"
    /\ \E addr \in 0..U8Max :
           Returned(AddressCall("SevenBitAddr::try_new", addr),
                    SevenBitAddr_try_new(addr))

CallTenBitAddrTryNew ==
    /\ pc = "idle"
    /\ \E addr \in 0..U16Max :
           Returned(AddressCall("TenBitAddr::try_new", addr),
                    TenBitAddr_try_new(addr))

InitAddress == Init /\ max_retries = 0

NextAddress ==
    \/ CallSevenBitAddrTryNew
    \/ CallTenBitAddrTryNew
    \/ Return

SpecAddress == InitAddress /\ [][NextAddress]_vars

\* C13: SevenBitAddr::try_new(a) is Ok with get() = a exactly for
\* 0x08 <= a <= 0x77, Err(Reserved(a)) for a < 0x08 and for 0x78 <= a <= 0x7F,
\* and Err(SevenBitRange(a)) for a > 0x7F.
C13_SevenBitTryNew ==
    (pc = "done" /\ call.fn = "SevenBitAddr::try_new") =>
        LET a == call.addr
        IN  /\ result.ok <=> (8 <= a /\ a <= 119)
            /\ result.ok => SevenBitAddr_get(result.value) = a
            /\ (a < 8 \/ (120 <= a /\ a <= 127)) => result = Err(Reserved(a))
            /\ a > 127 => result = Err(SevenBitRange(a))

C13_Witness ==
    /\ pc = "done" /\ call.fn = "SevenBitAddr::try_new" /\ call.addr = 119
    /\ result.ok /\ SevenBitAddr_get(result.value) = 119

\* C14: TenBitAddr::try_new(a) is Ok with get() = a exactly for a <= 0x3FF
\* and Err(TenBitRange(a)) for a > 0x3FF.
C14_TenBitTryNew ==
    (pc = "done" /\ call.fn = "TenBitAddr::try_new") =>
        LET a == call.addr
        IN  /\ result.ok <=> a <= 1023
            /\ result.ok => TenBitAddr_get(result.value) = a
            /\ a > 1023 => result = Err(TenBitRange(a))

C14_Witness ==
    /\ pc = "done" /\ call.fn = "TenBitAddr::try_new" /\ call.addr = 1023
    /\ result.ok /\ TenBitAddr_get(result.value) = 1023

----------------------------------------------------------------------------
(* 10-bit addressing emulation on its own: read and write of HubrisI2c     *)
(* for every 10-bit address, with payloads up to and past the capacity of  *)
(* the outgoing buffer.                                                    *)

\* largest 10-bit address
TenBitAddrMax == 1023

TenBitTarget == [via |-> "direct", inner |-> "HubrisI2c", mode |-> 10]

\* a payload of n bytes
LongPayload(n) == [i \in 1..n |-> i % 256]

\* payloads of a 10-bit write: empty, one byte, and for the addresses of
\* Addrs10 the lengths around the 256 bytes that fit next to the header
TenBitPayloads(address) ==
    {<<>>, <<170>>} \cup
    (IF address \in Addrs10
     THEN {LongPayload(n) : n \in (WriteDataCapacity - 3)..(WriteDataCapacity - 1)}
     ELSE {})

TenBitRead ==
    /\ pc = "idle"
    /\ \E a \in 0..TenBitAddrMax : \E b \in Buffers :
           Begin(Call(TenBitTarget, "read", a, <<>>, b, <<>>))

TenBitWrite ==
    /\ pc = "idle"
    /\ \E a \in 0..TenBitAddrMax : \E p \in TenBitPayloads(a) :
           Begin(Call(TenBitTarget, "write", a, p, <<>>, <<>>))

InitTenBit == Init /\ max_retries = 0

NextTenBit ==
    \/ TenBitRead
    \/ TenBitWrite
    \/ Return

SpecTenBit == InitTenBit /\ [][NextTenBit]_vars

\* a 10-bit read or write of HubrisI2c has returned
TenBitDone(fn) ==
    pc = "done" /\ call.via = "direct" /\ call.mode = 10 /\ call.fn = fn

\* C15: the first device-client operation of a 10-bit read or write to
\* address a in 0..0x3FF is a write that starts with the two header bytes
\* 11110XX0 (XX = bits 9 and 8 of a) and a mod 256; the read sends the header
\* alone; a write of [0xAA] to 0x123 sends [0xF2, 0x23, 0xAA].
C15_TenBitHeader ==
    ((TenBitDone("read") \/ TenBitDone("write")) /\ Len(call.bytes) <= 256) =>
        LET a == call.address
            bit9 == (a \div 512) % 2
            bit8 == (a \div 256) % 2
            header == <<240 + 4 * bit9 + 2 * bit8, a % 256>>
        IN  /\ Len(oplog) >= 1
            /\ oplog[1].op = "write"
            /\ SubSeq(oplog[1].data, 1, 2) = header
            /\ header = <<addr_high(a), addr_low(a)>>
            /\ call.fn = "read" => oplog[1].data = header
            /\ (call.fn = "write" /\ a = 291 /\ call.bytes = <<170>>) =>
                   oplog[1].data = <<242, 35, 170>>

C15_Witness ==
    /\ TenBitDone("write") /\ call.address = 291 /\ call.bytes = <<170>>
    /\ result.ok /\ Len(oplog) = 1 /\ oplog[1].data = <<242, 35, 170>>

\* C16: a 10-bit write of at most 256 payload bytes issues exactly one
\* device-client write of the header followed by the whole payload; a longer
\* payload returns BadResponse / 10bit_write_buffer_overflow and issues no
\* device-client operation.
C16_TenBitWriteOverflow ==
    TenBitDone("write") =>
        IF Len(call.bytes) <= 256
        THEN /\ Len(oplog) = 1
             /\ oplog[1].op = "write"
             /\ Len(oplog[1].data) = 2 + Len(call.bytes)
             /\ SubSeq(oplog[1].data, 3, Len(oplog[1].data)) = call.bytes
             /\ result.ok <=> script[1] = "Ok"
             /\ ~result.ok => result.err = HubrisI2cError(script[1], "10bit_write")
        ELSE /\ oplog = <<>>
             /\ result = Err(HubrisI2cError("BadResponse", "10bit_write_buffer_overflow"))

C16_Witness ==
    /\ TenBitDone("write") /\ Len(call.bytes) = 257 /\ oplog = <<>>
    /\ result = Err(HubrisI2cError("BadResponse", "10bit_write_buffer_overflow"))

----------------------------------------------------------------------------
(* Verification Harness: mock::MockI2c.  A harness is the record of its    *)
(* two fields; a method yields the harness after the call, the value       *)
(* returned and the caller's buffer.  A setup call whose data or whose     *)
(* expectation does not fit the fixed capacity panics.                     *)

\* capacity of expected_operations, and of the byte vectors of an expectation
ExpectationCapacity == 32
MockDataCapacity == 256

\* the panic of an unwrap() of a failed push or extend_from_slice
MockPanic == [panic |-> "called Result::unwrap() on an Err value"]

\* enum MockOperation
MockOperation_Read(address, response) ==
    [kind |-> "Read", address |-> address, response |-> response]
MockOperation_Write(address, expected_data) ==
    [kind |-> "Write", address |-> address, expected_data |-> expected_data]
MockOperation_WriteRead(address, expected_write, read_response) ==
    [kind |-> "WriteRead", address |-> address, expected_write |-> expected_write,
     read_response |-> read_response]

MockI2c(expected, index) ==
    [expected_operations |-> expected, operation_index |-> index]

MockI2cError(message) == [message |-> message]

expect_write(self, address, data) ==
    IF Len(data) > MockDataCapacity THEN MockPanic
    ELSE IF Len(self.expected_operations) >= ExpectationCapacity THEN MockPanic
    ELSE [self EXCEPT !.expected_operations =
              Append(@, MockOperation_Write(address, data))]

expect_read(self, address, response) ==
    IF Len(response) > MockDataCapacity THEN MockPanic
    ELSE IF Len(self.expected_operations) >= ExpectationCapacity THEN MockPanic
    ELSE [self EXCEPT !.expected_operations =
              Append(@, MockOperation_Read(address, response))]

expect_write_read(self, address, write_data, read_response) ==
    IF Len(write_data) > MockDataCapacity THEN MockPanic
    ELSE IF Len(read_response) > MockDataCapacity THEN MockPanic
    ELSE IF Len(self.expected_operations) >= ExpectationCapacity THEN MockPanic
    ELSE [self EXCEPT !.expected_operations =
              Append(@, MockOperation_WriteRead(address, write_data, read_response))]

\* assert_eq!(self.operation_index, self.expected_operations.len(), ..)
verify_complete(self) ==
    IF self.operation_index = Len(self.expected_operations)
    THEN [ok |-> TRUE, panic |-> ""]
    ELSE [ok |-> FALSE, panic |-> "Not all expected I2C operations were performed"]

MockFailed(self, message, buffer) ==
    [self |-> self, res |-> Err(MockI2cError(message)), buf |-> buffer]

MockI2c_read(self, address, buffer) ==
    IF self.operation_index >= Len(self.expected_operations)
    THEN MockFailed(self, "Unexpected read operation", buffer)
    ELSE LET e == self.expected_operations[self.operation_index + 1]
         IN  IF e.kind # "Read"
             THEN MockFailed(self, "Expected read operation", buffer)
             ELSE IF e.address # address
             THEN MockFailed(self, "Read address mismatch", buffer)
             ELSE IF Len(buffer) # Len(e.response)
             THEN MockFailed(self, "Read buffer size mismatch", buffer)
             ELSE [self |-> [self EXCEPT !.operation_index = @ + 1],
                   res |-> OkResult,
                   buf |-> e.response]

\* variant: a matched write leaves operation_index alone
MockI2c_write_not_advancing(self, address, bytes) ==
    IF self.operation_index >= Len(self.expected_operations)
    THEN MockFailed(self, "Unexpected write operation", <<>>)
    ELSE LET e == self.expected_operations[self.operation_index + 1]
         IN  IF e.kind # "Write"
             THEN MockFailed(self, "Expected write operation", <<>>)
             ELSE IF e.address # address
             THEN MockFailed(self, "Write address mismatch", <<>>)
             ELSE IF bytes # e.expected_data
             THEN MockFailed(self, "Write data mismatch", <<>>)
             ELSE [self |-> self, res |-> OkResult, buf |-> <<>>]

MockI2c_write(self, address, bytes) ==
    IF self.operation_index >= Len(self.expected_operations)
    THEN MockFailed(self, "Unexpected write operation", <<>>)
    ELSE LET e == self.expected_operations[self.operation_index + 1]
         IN  IF e.kind # "Write"
             THEN MockFailed(self, "Expected write operation", <<>>)
             ELSE IF e.address # address
             THEN MockFailed(self, "Write address mismatch", <<>>)
             ELSE IF bytes # e.expected_data
             THEN MockFailed(self, "Write data mismatch", <<>>)
             ELSE [self |-> [self EXCEPT !.operation_index = @ + 1],
                   res |-> OkResult,
                   buf |-> <<>>]

MockI2c_write_read(self, address, bytes, buffer) ==
    IF self.operation_index >= Len(self.expected_operations)
    THEN MockFailed(self, "Unexpected write_read operation", buffer)
    ELSE LET e == self.expected_operations[self.operation_index + 1]
         IN  IF e.kind # "WriteRead"
             THEN MockFailed(self, "Expected write_read operation", buffer)
             ELSE IF e.address # address
             THEN MockFailed(self, "WriteRead address mismatch", buffer)
             ELSE IF bytes # e.expected_write
             THEN MockFailed(self, "WriteRead write data mismatch", buffer)
             ELSE IF Len(buffer) # Len(e.read_response)
             THEN MockFailed(self, "WriteRead read buffer size mismatch", buffer)
             ELSE [self |-> [self EXCEPT !.operation_index = @ + 1],
                   res |-> OkResult,
                   buf |-> e.read_response]

\* the loop of transaction over operations[i..]; `?` returns the first error
RECURSIVE MockI2c_transaction_from(_, _, _, _)
MockI2c_transaction_from(self, address, operations, i) ==
    IF i > Len(operations)
    THEN [self |-> self, res |-> OkResult, operations |-> operations]
    ELSE IF operations[i].kind = "Read"
    THEN LET r == MockI2c_read(self, address, operations[i].data)
             after == [operations EXCEPT ![i].data = r.buf]
         IN  IF r.res.ok
             THEN MockI2c_transaction_from(r.self, address, after, i + 1)
             ELSE [self |-> r.self, res |-> r.res, operations |-> after]
    ELSE LET w == MockI2c_write(self, address, operations[i].data)
         IN  IF w.res.ok
             THEN MockI2c_transaction_from(w.self, address, operations, i + 1)
             ELSE [self |-> w.self, res |-> w.res, operations |-> operations]

MockI2c_transaction(self, address, operations) ==
    MockI2c_transaction_from(self, address, operations, 1)

(* A test against the harness: expectations are appended, the generic      *)
(* operations are called, verify_complete is called.                       *)

\* the harness held in the state
TheMock == MockI2c(expected_operations, operation_index)

\* the expectations a test loads: address 0x48, write data [0x00],
\* response [0x17, 0x00]; and data one byte longer than an expectation holds
ExpectAddrs == {72}
ExpectData == <<0>>
ExpectResponse == <<23, 0>>
ExpectDatas == {ExpectData, LongPayload(MockDataCapacity + 1)}
ExpectResponses == {ExpectResponse, LongPayload(MockDataCapacity + 1)}

\* expected_operations loaded to its capacity with write expectations
FullExpectations ==
    [i \in 1..ExpectationCapacity |-> MockOperation_Write(72, ExpectData)]

\* the harness takes a further expectation: the test loads a few, or tries
\* one more on a harness that is full
MayExpect ==
    \/ Len(expected_operations) < MaxExpect
    \/ Len(expected_operations) = ExpectationCapacity

\* the arguments the calls are given
MockAddrs == Addrs7
MockBytes == {<<0>>, <<1>>}
MockBuffers == {Zeroes(1), Zeroes(2)}
MockElements == {OpRead(Zeroes(2)), OpWrite(<<0>>), OpWrite(<<1>>)}
MockOperationLists == UNION {[1..n -> MockElements] : n \in 0..MaxOps}

\* index: operation_index at the entry of the call
MockCall(fn, address, bytes, buffer, operations) ==
    [fn |-> fn, address |-> address, bytes |-> bytes, buffer |-> buffer,
     operations |-> operations, index |-> operation_index]

MockUnchanged ==
    UNCHANGED <<max_retries, script, oplog, attempt, last_error, attempt_result,
                attempts, sleeps, bus, previous>>

\* a setup call has returned, leaving the harness self, or has panicked
Loaded(self) ==
    /\ IF self = MockPanic
       THEN /\ pc' = "panicked"
            /\ UNCHANGED <<expected_operations, operation_index>>
       ELSE /\ expected_operations' = self.expected_operations
            /\ operation_index' = self.operation_index
            /\ UNCHANGED pc
    /\ UNCHANGED <<call, mem, result>>
    /\ MockUnchanged

\* a generic operation on the harness has returned
MockReturned(c, self, res, m) ==
    /\ call' = c
    /\ expected_operations' = self.expected_operations
    /\ operation_index' = self.operation_index
    /\ result' = res
    /\ mem' = m
    /\ pc' = "done"
    /\ MockUnchanged

ExpectWrite ==
    /\ pc = "idle"
    /\ MayExpect
    /\ \E a \in ExpectAddrs : \E d \in ExpectDatas :
           Loaded(expect_write(TheMock, a, d))

ExpectRead ==
    /\ pc = "idle"
    /\ MayExpect
    /\ \E a \in ExpectAddrs : \E r \in ExpectResponses :
           Loaded(expect_read(TheMock, a, r))

ExpectWriteRead ==
    /\ pc = "idle"
    /\ MayExpect
    /\ \E a \in ExpectAddrs : \E d \in ExpectDatas : \E r \in ExpectResponses :
           Loaded(expect_write_read(TheMock, a, d, r))

MockRead ==
    /\ pc = "idle"
    /\ \E a \in MockAddrs : \E b \in MockBuffers :
           LET r == MockI2c_read(TheMock, a, b)
           IN  MockReturned(MockCall("read", a, <<>>, b, <<>>), r.self, r.res,
                            Memory(r.buf, <<>>))

MockWrite ==
    /\ pc = "idle"
    /\ \E a \in MockAddrs : \E p \in MockBytes :
           LET r == MockI2c_write(TheMock, a, p)
           IN  MockReturned(MockCall("write", a, p, <<>>, <<>>), r.self, r.res,
                            Memory(<<>>, <<>>))

MockWriteRead ==
    /\ pc = "idle"
    /\ \E a \in MockAddrs : \E p \in MockBytes : \E b \in MockBuffers :
           LET r == MockI2c_write_read(TheMock, a, p, b)
           IN  MockReturned(MockCall("write_read", a, p, b, <<>>), r.self, r.res,
                            Memory(r.buf, <<>>))

MockTransaction ==
    /\ pc = "idle"
    /\ \E a \in MockAddrs : \E ops \in MockOperationLists :
           LET r == MockI2c_transaction(TheMock, a, ops)
           IN  MockReturned(MockCall("transaction", a, <<>>, <<>>, ops), r.self,
                            r.res, Memory(<<>>, r.operations))

VerifyComplete ==
    /\ pc = "idle"
    /\ MockReturned(MockCall("verify_complete", 0, <<>>, <<>>, <<>>), TheMock,
                    verify_complete(TheMock), Memory(<<>>, <<>>))

\* a harness fresh from new(), or one a test has loaded to capacity
InitMock ==
    /\ max_retries = 0
    /\ pc = "idle"
    /\ call = NoCall
    /\ script = <<>>
    /\ oplog = <<>>
    /\ mem = Memory(<<>>, <<>>)
    /\ result = NoResult
    /\ attempt = 0
    /\ last_error = None
    /\ attempt_result = NoResult
    /\ attempts = 0
    /\ sleeps = <<>>
    /\ expected_operations \in {<<>>, FullExpectations}
    /\ operation_index = 0
    /\ bus = <<>>
    /\ previous = None

NextMock ==
    \/ ExpectWrite
    \/ ExpectRead
    \/ ExpectWriteRead
    \/ MockRead
    \/ MockWrite
    \/ MockWriteRead
    \/ MockTransaction
    \/ VerifyComplete
    \/ Return

SpecMock == InitMock /\ [][NextMock]_vars

\* a call of fn on the harness has returned
MockDone(fn) == pc = "done" /\ call.fn = fn

\* the call matches the expectation at the cursor it was entered with
MatchesExpectation ==
    /\ call.index < Len(expected_operations)
    /\ LET e == expected_operations[call.index + 1]
       IN  /\ e.address = call.address
           /\ \/ MockDone("read") /\ e.kind = "Read"
                 /\ Len(call.buffer) = Len(e.response)
              \/ MockDone("write") /\ e.kind = "Write"
                 /\ call.bytes = e.expected_data
              \/ MockDone("write_read") /\ e.kind = "WriteRead"
                 /\ call.bytes = e.expected_write
                 /\ Len(call.buffer) = Len(e.read_response)

\* C17: operation_index starts at 0 and stays within 0..number of
\* expectations; a read, write or write_read that matches the expectation at
\* the cursor returns Ok, leaves the canned response in the buffer and moves
\* the cursor on by exactly one (so the second of two identical calls against
\* two identical expectations succeeds like the first); verify_complete
\* passes exactly when the cursor equals the number of expectations.
C17_CursorAdvancesOnMatch ==
    /\ 0 <= operation_index /\ operation_index <= Len(expected_operations)
    /\ (MockDone("read") \/ MockDone("write") \/ MockDone("write_read")) =>
           /\ MatchesExpectation =>
                  /\ result = OkResult
                  /\ operation_index = call.index + 1
                  /\ MockDone("read") =>
                         mem.buffer = expected_operations[call.index + 1].response
                  /\ MockDone("write_read") =>
                         mem.buffer = expected_operations[call.index + 1].read_response
           /\ result.ok => MatchesExpectation
    /\ MockDone("verify_complete") =>
           (result.ok <=> operation_index = Len(expected_operations))

C17_Witness ==
    /\ MockDone("write") /\ result = OkResult
    /\ Len(expected_operations) = 2
    /\ expected_operations[1] = expected_operations[2]
    /\ call.index = 1 /\ operation_index = 2
    /\ verify_complete(TheMock).ok

\* C18: a read, write, write_read or transaction on the harness that returns
\* an error leaves operation_index at the value it had when the call began.
C18_ErrorLeavesCursor ==
    ((MockDone("read") \/ MockDone("write") \/ MockDone("write_read")
        \/ MockDone("transaction")) /\ ~result.ok) =>
        operation_index = call.index

----------------------------------------------------------------------------
(* The 7-bit write_read of HubrisI2c on a bus shared with other users.     *)
(* Each device-client operation of the call is one transfer on the bus;    *)
(* between two of them the call is waiting and another bus user may run.   *)

BusTarget == [via |-> "direct", inner |-> "HubrisI2c", mode |-> 7]

\* the indices of the bus entries of the given user
EntriesOf(user) == {i \in 1..Len(bus) : bus[i].user = user}

\* write_read is entered: the device-client operations it goes on to issue
\* are those HubrisI2c_write_read issues against the device's answers
BusWriteRead ==
    /\ pc = "idle"
    /\ \E p \in Payloads : \E b \in Buffers :
           LET c == Call(BusTarget, "write_read", 72, p, b, <<>>)
           IN  \E s \in Scripts(ScriptLen(c)) :
                   /\ call' = c
                   /\ script' = s
                   /\ oplog' = HubrisI2c_write_read(NewDevice(s), 72, p, b).dev.log
                   /\ mem' = Memory(b, <<>>)
                   /\ bus' = <<>>
                   /\ pc' = "phases"
    /\ UNCHANGED <<max_retries, result, attempt, last_error, attempt_result,
                   attempts, sleeps, expected_operations, operation_index, previous>>

\* the next device-client operation of the call takes place on the bus; after
\* the last one the call returns
BusOperation ==
    /\ pc = "phases"
    /\ LET k == Cardinality(EntriesOf("self")) + 1
           r == HubrisI2c_write_read(NewDevice(script), call.address, call.bytes,
                                     call.buffer)
       IN  /\ k <= Len(oplog)
           /\ bus' = Append(bus, [user |-> "self", op |-> oplog[k].op])
           /\ IF k = Len(oplog)
              THEN /\ result' = r.res
                   /\ mem' = Memory(r.buf, <<>>)
                   /\ pc' = "done"
              ELSE UNCHANGED <<result, mem, pc>>
    /\ UNCHANGED <<max_retries, call, script, oplog, attempt, last_error,
                   attempt_result, attempts, sleeps, expected_operations,
                   operation_index, previous>>

\* another user of the bus performs an operation while the call is under way
OtherBusUser ==
    /\ pc = "phases"
    /\ Cardinality(EntriesOf("other")) < MaxOther
    /\ bus' = Append(bus, [user |-> "other", op |-> "transfer"])
    /\ UNCHANGED <<max_retries, pc, call, script, oplog, mem, result, attempt,
                   last_error, attempt_result, attempts, sleeps,
                   expected_operations, operation_index, previous>>

InitBus == Init /\ max_retries = 0

NextBus ==
    \/ BusWriteRead
    \/ BusOperation
    \/ OtherBusUser
    \/ Return

SpecBus == InitBus /\ [][NextBus]_vars

\* an operation of another user lies between two operations of the call
Interleaved ==
    \E i \in EntriesOf("self") : \E j \in EntriesOf("other") :
    \E k \in EntriesOf("self") : i < j /\ j < k

\* C20: a 7-bit write_read with a one-byte payload is a single device-client
\* operation (read_reg_into), so no operation of another bus user lies inside
\* it; with any other payload a completed write_read is a write and a
\* read_into, two separate operations on the bus.
C20_RegisterReadIsOneOperation ==
    (pc \in {"phases", "done"} /\ call.fn = "write_read") =>
        /\ Len(call.bytes) = 1 =>
               /\ Cardinality(EntriesOf("self")) <= 1
               /\ ~Interleaved
               /\ pc = "done" =>
                      /\ Cardinality(EntriesOf("self")) = 1
                      /\ bus[Len(bus)].op = "read_reg_into"
        /\ (Len(call.bytes) # 1 /\ pc = "done" /\ result.ok) =>
               /\ Cardinality(EntriesOf("self")) = 2
               /\ \E i \in EntriesOf("self") : bus[i].op = "write"
               /\ bus[Len(bus)] = [user |-> "self", op |-> "read_into"]

C20_Witness ==
    /\ pc = "done" /\ call.fn = "write_read" /\ Len(call.bytes) = 2 /\ result.ok
    /\ Interleaved
    /\ bus = <<[user |-> "self", op |-> "write"],
               [user |-> "other", op |-> "transfer"],
               [user |-> "self", op |-> "read_into"]>>

----------------------------------------------------------------------------
(* Further properties of the Core Adapter and the Fast-Path Dispatcher     *)

\* entries of the log of device-client operations
WriteEntry(bytes) == [op |-> "write", data |-> bytes, len |-> 0]
ReadIntoEntry(buffer) == [op |-> "read_into", data |-> <<>>, len |-> Len(buffer)]
ReadRegIntoEntry(reg, buffer) ==
    [op |-> "read_reg_into", data |-> <<reg>>, len |-> Len(buffer)]

\* C21: the 7-bit write_read of HubrisI2c with a one-byte payload issues the
\* single operation read_reg_into(bytes[0], buffer) and labels its failure
\* write_read_reg; with any other payload it issues write(bytes) and, only
\* after a successful write, read_into(buffer); a failed write is labelled
\* write_read_write_phase, a failed read write_read_read_phase.
C21_WriteReadPhases ==
    (Invoked /\ call.inner = "HubrisI2c" /\ call.mode = 7 /\ call.fn = "write_read") =>
        IF Len(call.bytes) = 1
        THEN /\ oplog = <<ReadRegIntoEntry(call.bytes[1], call.buffer)>>
             /\ InvokedResult.ok <=> script[1] = "Ok"
             /\ ~InvokedResult.ok =>
                    InvokedResult.err = HubrisI2cError(script[1], "write_read_reg")
        ELSE IF script[1] # "Ok"
        THEN /\ oplog = <<WriteEntry(call.bytes)>>
             /\ InvokedResult =
                    Err(HubrisI2cError(script[1], "write_read_write_phase"))
        ELSE /\ oplog = <<WriteEntry(call.bytes), ReadIntoEntry(call.buffer)>>
             /\ InvokedResult.ok <=> script[2] = "Ok"
             /\ ~InvokedResult.ok =>
                    InvokedResult.err =
                        HubrisI2cError(script[2], "write_read_read_phase")

C21_Witness ==
    /\ pc = "done" /\ call.via = "direct" /\ call.inner = "HubrisI2c" /\ call.mode = 7
    /\ call.fn = "write_read" /\ call.bytes = <<>>
    /\ oplog = <<WriteEntry(<<>>)>>
    /\ result = Err(HubrisI2cError("DataNackSent", "write_read_write_phase"))

\* the list is [Write(w), Read(buffer)] with w of one byte
RegisterReadShape(operations) ==
    /\ Len(operations) = 2
    /\ operations[1].kind = "Write"
    /\ operations[2].kind = "Read"
    /\ Len(operations[1].data) = 1

\* C22: RegisterOptimizedI2c::transaction on [Write(w), Read(buffer)] with w
\* of one byte issues the single operation read_reg_into(w[0], buffer); on
\* every other list it issues the operations HubrisI2c::transaction issues,
\* returns what it returns and leaves the same bytes in the buffers.
C22_TransactionDispatch ==
    (pc = "done" /\ call.via = "direct" /\ call.inner = "RegisterOptimizedI2c"
        /\ call.fn = "transaction") =>
        IF RegisterReadShape(call.operations)
        THEN oplog = <<ReadRegIntoEntry(call.operations[1].data[1],
                                        call.operations[2].data)>>
        ELSE LET core == HubrisI2c_transaction(NewDevice(script), call.address,
                                               call.operations)
             IN  /\ oplog = core.dev.log
                 /\ result = core.res
                 /\ mem.operations = core.operations

C22_Witness ==
    /\ pc = "done" /\ call.via = "direct" /\ call.inner = "RegisterOptimizedI2c"
    /\ call.fn = "transaction" /\ Len(call.operations) = 2
    /\ call.operations[1].kind = "Write" /\ Len(call.operations[1].data) = 2
    /\ call.operations[2].kind = "Read"
    /\ Len(oplog) = 2 /\ oplog[1].op = "write" /\ oplog[2].op = "read_into"
    /\ result.ok

\* C23: a 10-bit read first issues a write of the two header bytes and then
\* a read_into of the buffer; a failed header write is returned with label
\* 10bit_address_setup and no read is issued; a failed read is returned with
\* label 10bit_read.
C23_TenBitReadPhases ==
    TenBitDone("read") =>
        LET header == WriteEntry(<<addr_high(call.address), addr_low(call.address)>>)
        IN  IF script[1] # "Ok"
            THEN /\ oplog = <<header>>
                 /\ result = Err(HubrisI2cError(script[1], "10bit_address_setup"))
                 /\ mem.buffer = call.buffer
            ELSE /\ oplog = <<header, ReadIntoEntry(call.buffer)>>
                 /\ result.ok <=> script[2] = "Ok"
                 /\ ~result.ok => result.err = HubrisI2cError(script[2], "10bit_read")

C23_Witness ==
    /\ TenBitDone("read") /\ call.address = 1023
    /\ Len(oplog) = 1 /\ oplog[1].data = <<246, 255>>
    /\ result = Err(HubrisI2cError("BusError", "10bit_address_setup"))

----------------------------------------------------------------------------
(* A sequence of calls on one RetryingI2c, with a record of what the       *)
(* previous call did.                                                      *)

RetryTarget == [via |-> "retry", inner |-> "HubrisI2c", mode |-> 7]

RetryingRead ==
    /\ pc = "idle"
    /\ \E b \in Buffers : Begin(Call(RetryTarget, "read", 72, <<>>, b, <<>>))

\* what a returning call leaves on record
CallRecord == [attempts |-> attempts, ok |-> result.ok, max_retries |-> max_retries]

\* variant: the loop variable, last_error and the counts outlive the call
ReturnRecorded_keeping_locals ==
    /\ pc = "done"
    /\ pc' = "idle"
    /\ call' = NoCall
    /\ script' = <<>>
    /\ oplog' = <<>>
    /\ mem' = Memory(<<>>, <<>>)
    /\ result' = NoResult
    /\ attempt_result' = NoResult
    /\ bus' = <<>>
    /\ previous' = Some(CallRecord)
    /\ UNCHANGED <<max_retries, attempt, last_error, attempts, sleeps,
                   expected_operations, operation_index>>

\* the call has returned; its locals are dropped
ReturnRecorded ==
    /\ pc = "done"
    /\ pc' = "idle"
    /\ call' = NoCall
    /\ script' = <<>>
    /\ oplog' = <<>>
    /\ mem' = Memory(<<>>, <<>>)
    /\ result' = NoResult
    /\ attempt' = 0
    /\ last_error' = None
    /\ attempt_result' = NoResult
    /\ attempts' = 0
    /\ sleeps' = <<>>
    /\ bus' = <<>>
    /\ previous' = Some(CallRecord)
    /\ UNCHANGED <<max_retries, expected_operations, operation_index>>

NextRetryCalls ==
    \/ RetryingRead
    \/ RetryAttempt
    \/ RetryWake
    \/ RetryExit
    \/ ReturnRecorded

SpecRetryCalls == Init /\ [][NextRetryCalls]_vars

\* C24: max_retries is the same in every call; whatever the previous call
\* did, a call begins with attempt 0, no stored error and nothing slept,
\* counts its attempts from there, gets max_retries + 1 attempts before it
\* gives up on a retryable failure, and sleeps 10 ms first.
C24_NoStateBetweenCalls ==
    /\ previous # None => previous[1].max_retries = max_retries
    /\ pc = "idle" =>
           (attempt = 0 /\ last_error = None /\ attempts = 0 /\ sleeps = <<>>)
    /\ (ViaRetry /\ pc = "loop") => attempt = attempts
    /\ (ViaRetry /\ attempts = 0) => (last_error = None /\ sleeps = <<>>)
    /\ (ViaRetry /\ pc = "done" /\ ~result.ok
           /\ kind(result.err) \in RetryableKinds) => attempts = max_retries + 1
    /\ (ViaRetry /\ Len(sleeps) >= 1) => sleeps[1] = 10

C24_Witness ==
    /\ previous = Some([attempts |-> 3, ok |-> FALSE, max_retries |-> 2])
    /\ ViaRetry /\ pc = "done" /\ attempts = 3 /\ ~result.ok
    /\ sleeps = <<10, 20>>

----------------------------------------------------------------------------
(* The retry loop for small values of max_retries and for the largest one  *)
(* a u8 holds.                                                             *)

InitRetryBudget ==
    /\ max_retries \in (0..MaxRetries) \cup {U8Max}
    /\ pc = "idle"
    /\ call = NoCall
    /\ script = <<>>
    /\ oplog = <<>>
    /\ mem = Memory(<<>>, <<>>)
    /\ result = NoResult
    /\ attempt = 0
    /\ last_error = None
    /\ attempt_result = NoResult
    /\ attempts = 0
    /\ sleeps = <<>>
    /\ expected_operations = <<>>
    /\ operation_index = 0
    /\ bus = <<>>
    /\ previous = None

NextRetryBudget ==
    \/ RetryingRead
    \/ RetryAttempt
    \/ RetryWake
    \/ RetryExit
    \/ Return

SpecRetryBudget == InitRetryBudget /\ [][NextRetryBudget]_vars

\* C25: retry_operation makes at most max_retries + 1 attempts and, while it
\* has not returned, can always take its next step; the loop is left without
\* a return only after at least one attempt and with the error of the final
\* attempt in last_error, so last_error.unwrap() does not panic.
C25_TerminatesWithoutPanic ==
    ViaRetry =>
        /\ attempts <= max_retries + 1
        /\ pc = "loop" => (attempt = attempts /\ ENABLED (RetryAttempt \/ RetryExit))
        /\ pc = "sleep" => (attempt < max_retries /\ ENABLED RetryWake)
        /\ (pc = "loop" /\ attempt > max_retries) =>
               /\ attempts >= 1
               /\ ~attempt_result.ok
               /\ last_error = Some(attempt_result.err)
        /\ pc = "done" => (attempts >= 1 /\ result # PanicResult)

C25_Witness ==
    /\ ViaRetry /\ pc = "done" /\ max_retries = 255 /\ attempts = 256
    /\ ~result.ok /\ last_error = Some(result.err) /\ Len(sleeps) = 255

----------------------------------------------------------------------------
(* RetryingI2c around transaction and write_read of HubrisI2c, with every  *)
(* device-client operation of every attempt recorded on the bus.           *)

\* the transactions retried: the lists of two elements
RetryLists == {ops \in OperationLists : Len(ops) = 2}

RetryingTransaction ==
    /\ pc = "idle"
    /\ \E ops \in RetryLists :
           Begin(Call(RetryTarget, "transaction", 72, <<>>, <<>>, ops))

RetryingWriteRead ==
    /\ pc = "idle"
    /\ \E p \in Payloads : \E b \in Buffers :
           Begin(Call(RetryTarget, "write_read", 72, p, b, <<>>))

\* the device-client operations of attempt number att, as bus entries
Transfers(att, log) ==
    [i \in 1..Len(log) |->
        [user |-> "self", attempt |-> att, op |-> log[i].op, data |-> log[i].data]]

\* the bus entries of attempt number att, in order
Segment(att) == SelectSeq(bus, LAMBDA e : e.attempt = att)

\* the caller's memory after k device-client operations of an attempt that
\* goes on: the buffers of the read elements completed so far are filled
PartialMemory(m, r, k) ==
    IF call.fn = "transaction"
    THEN [m EXCEPT !.operations =
              [i \in 1..Len(m.operations) |->
                  IF i <= k THEN r.mem.operations[i] ELSE m.operations[i]]]
    ELSE m

\* device-client operation number k of the attempt under way takes place on
\* the bus and is answered; the wrapped operation, run on memory m, goes on
\* to its next device-client operation or returns to the retry loop
TransferOnBus(m, k) ==
    \E code \in {"Ok"} \cup FaultCodes :
        LET s == SubSeq(script, 1, k - 1) \o <<code>>
            r == Invoke(call, m, NewDevice(s))
        IN  /\ script' = s
            /\ oplog' = SubSeq(r.dev.log, 1, k)
            /\ bus' = Append(bus, Transfers(attempt, r.dev.log)[k])
            /\ IF Len(r.dev.log) > k
               THEN /\ mem' = PartialMemory(m, r, k)
                    /\ pc' = "phases"
                    /\ UNCHANGED <<result, attempt, last_error, attempt_result,
                                   sleeps>>
               ELSE /\ mem' = r.mem
                    /\ AttemptCompleted(r.res)

\* the elements of a transaction that the previous attempt did not complete
Remaining(m) ==
    IF attempts = 0 \/ call.fn # "transaction" THEN m
    ELSE [m EXCEPT !.operations =
              SubSeq(@, Len(Segment(attempt - 1)), Len(@))]

\* variant: a retry goes on from the element that failed
RetryAttemptOnBus_resuming ==
    /\ pc = "loop"
    /\ attempt <= max_retries
    /\ attempts' = attempts + 1
    /\ TransferOnBus(Remaining(mem), 1)
    /\ UNCHANGED <<max_retries, call, expected_operations, operation_index, previous>>

\* an iteration of the retry loop begins: operation(&mut self.inner) is
\* called and issues its first device-client operation
RetryAttemptOnBus ==
    /\ pc = "loop"
    /\ attempt <= max_retries
    /\ attempts' = attempts + 1
    /\ TransferOnBus(mem, 1)
    /\ UNCHANGED <<max_retries, call, expected_operations, operation_index, previous>>

\* the wrapped operation issues its next device-client operation
RetryTransferOnBus ==
    /\ pc = "phases"
    /\ TransferOnBus(mem, Len(oplog) + 1)
    /\ UNCHANGED <<max_retries, call, attempts, expected_operations,
                   operation_index, previous>>

NextRetryBus ==
    \/ RetryingTransaction
    \/ RetryingWriteRead
    \/ RetryAttemptOnBus
    \/ RetryTransferOnBus
    \/ RetryWake
    \/ RetryExit
    \/ Return

SpecRetryBus == Init /\ [][NextRetryBus]_vars

\* the first device-client operation of the call in progress
FirstTransfer ==
    IF call.fn = "transaction"
    THEN IF call.operations[1].kind = "Write"
         THEN [op |-> "write", data |-> call.operations[1].data]
         ELSE [op |-> "read_into", data |-> <<>>]
    ELSE IF Len(call.bytes) = 1
    THEN [op |-> "read_reg_into", data |-> call.bytes]
    ELSE [op |-> "write", data |-> call.bytes]

SameTransfer(e, f) == e.op = f.op /\ e.data = f.data

\* C26: every attempt of a retried transaction or write_read starts with the
\* first device-client operation of the call; an attempt that follows one
\* that failed at its operation k > 1 issues operations 1..k-1 again as far
\* as it gets, so a write that succeeded in one attempt is on the bus again
\* in the next.
C26_RetryRestartsCall ==
    (ViaRetry /\ attempts >= 1 /\ call.fn \in {"transaction", "write_read"}) =>
        /\ \A a \in 0..(attempts - 1) :
               /\ Len(Segment(a)) >= 1
               /\ SameTransfer(Segment(a)[1], FirstTransfer)
        /\ Segment(attempts - 1) = Transfers(attempts - 1, oplog)
        /\ \A a \in 1..(attempts - 1) :
               \A i \in 1..(Len(Segment(a - 1)) - 1) :
                   i <= Len(Segment(a)) =>
                       SameTransfer(Segment(a)[i], Segment(a - 1)[i])
        /\ \A a \in 1..(attempts - 1) :
               (Len(Segment(a - 1)) >= 2 /\ Segment(a - 1)[1].op = "write") =>
                   Cardinality({i \in 1..Len(bus) :
                                    SameTransfer(bus[i], Segment(a - 1)[1])}) >= 2

C26_Witness ==
    /\ ViaRetry /\ pc = "done" /\ call.fn = "transaction" /\ attempts = 2
    /\ result.ok
    /\ call.operations[1] = OpWrite(Payload(2))
    /\ Len(bus) = 4
    /\ bus[1] = [user |-> "self", attempt |-> 0, op |-> "write", data |-> Payload(2)]
    /\ bus[2].op = "read_into"
    /\ bus[3] = [user |-> "self", attempt |-> 1, op |-> "write", data |-> Payload(2)]
    /\ bus[4].op = "read_into"

====
